---- MODULE Spec2Model ----
(***************************************************************************)
(* A model of tmpl (src/tmpl.cpp), the command-line template manager.      *)
(*                                                                         *)
(* Text (file contents, tags, comma-separated arguments) is a sequence of  *)
(* one-character strings.  A directory tree is a set of entries            *)
(* [path, kind, data]: path is the sequence of components below the root   *)
(* of the tree, kind is "dir" or "file", data is the text of a file.       *)
(* A place of the filesystem (a child of the store, a path of the working  *)
(* directory) is a record [kind, tree] with kind "none", "file" or "dir".  *)
(*                                                                         *)
(* One step of the model is one invocation of the program: main's branch   *)
(* for the subcommand, with everything it calls.  An uncaught              *)
(* std::filesystem exception ends the invocation by std::terminate, with   *)
(* whatever was done to the filesystem before it left in place.            *)
(***************************************************************************)
EXTENDS Integers, Sequences, FiniteSets, TLC

VARIABLES
    fs,       \* the filesystem: [storeDir, store, cwd]
    call,     \* the invocation just made: [cmd, name, dir, tags]
    msg,      \* the message it printed
    listing,  \* the template lines `list` printed: a set of [name, tags]
    rc,       \* its exit status
    deleted   \* history: names deleted with no successful save since

vars == <<fs, call, msg, listing, rc, deleted>>

----------------------------------------------------------------------------
(* Bounds and input sets *)

\* how many tag letters the arguments are built from
NumLetters == 2

Alphabet == <<"a", "b", "c", "d">>

\* names `save` is given
TemplateNames == {"alpha", "beta"}

\* a name no `save` is given: a stray file of the store, or nothing
StrayName == "notes"

Names == TemplateNames \cup {StrayName}

\* paths of the working directory: two directories to save, a destination
\* that does not exist yet, and a path nothing is ever at
Paths == {"proj", "tagged", "out", "gone"}

\* the --tags / <tag1,tag2,...> arguments: single letters, a pair with blanks
\* around its tokens, a repeated letter, and a lone comma
CsvArgs ==
    {<<Alphabet[i]>> : i \in 1..NumLetters}
    \cup {<<" ", Alphabet[2], " ", ",", Alphabet[1]>>,
          <<Alphabet[1], ",", Alphabet[1]>>,
          <<",">>}

\* how long the tag lists given to the codec are
MaxListLen == 4

\* the tokens of those lists: not empty, without whitespace or comma
CodecTokens == {<<"a">>, <<"b">>, <<"a", "b">>}

\* the lists of at most n tokens
RECURSIVE ListsUpTo(_)
ListsUpTo(n) ==
    IF n = 0 THEN {<<>>}
    ELSE LET shorter == ListsUpTo(n - 1)
         IN shorter \cup {Append(l, t) : l \in {x \in shorter : Len(x) = n - 1},
                                         t \in CodecTokens}

CodecLists == ListsUpTo(MaxListLen)

\* the arguments of the specification with two templates
FewArgs ==
    {<<"a">>, <<" ", "b", " ", ",", "a">>, <<"a", ",", "a">>}

----------------------------------------------------------------------------
(* Text *)

Space == {" ", "\t", "\n", "\r"}

TagsPrefix == <<"T", "a", "g", "s", ":">>

\* the index of the first d in s, or 0
RECURSIVE FindFrom(_, _, _)
FindFrom(s, d, i) ==
    IF i > Len(s) THEN 0
    ELSE IF s[i] = d THEN i
    ELSE FindFrom(s, d, i + 1)

\* std::getline(stream, tok, d) until it fails: the pieces between the d's;
\* nothing follows a final d, and an empty stream gives no piece
RECURSIVE GetLines(_, _)
GetLines(s, d) ==
    IF s = <<>> THEN <<>>
    ELSE LET k == FindFrom(s, d, 1)
         IN IF k = 0 THEN <<s>>
            ELSE <<SubSeq(s, 1, k - 1)>> \o GetLines(SubSeq(s, k + 1, Len(s)), d)

IsSpace(c) == c \in Space

\* tag.erase(std::remove_if(tag.begin(), tag.end(), ::isspace), tag.end())
StripSpace(s) == SelectSeq(s, LAMBDA c : ~IsSpace(c))

Range(s) == {s[i] : i \in 1..Len(s)}

\* i < tags.size() - 1 ? "," : nothing, after each tag
RECURSIVE JoinTags(_)
JoinTags(tags) ==
    IF tags = <<>> THEN <<>>
    ELSE IF Len(tags) = 1 THEN tags[1]
    ELSE tags[1] \o <<",">> \o JoinTags(Tail(tags))

RECURSIVE Flatten(_)
Flatten(ss) == IF ss = <<>> THEN <<>> ELSE ss[1] \o Flatten(Tail(ss))

----------------------------------------------------------------------------
(* Directory trees *)

NoPlace == [kind |-> "none", tree |-> {}]

FilePlace == [kind |-> "file", tree |-> {}]

DirPlace(tree) == [kind |-> "dir", tree |-> tree]

DirEntry(p) == [path |-> p, kind |-> "dir", data |-> <<>>]

FileEntry(p, text) == [path |-> p, kind |-> "file", data |-> text]

MetaName == ".meta"

MetaPath == <<MetaName>>

IsFileAt(tree, p) == \E e \in tree : e.path = p /\ e.kind = "file"

DataAt(tree, p) == (CHOOSE e \in tree : e.path = p /\ e.kind = "file").data

\* opening a file for writing creates it or truncates it
PutFile(tree, p, text) == {e \in tree : e.path # p} \cup {FileEntry(p, text)}

\* the entries directly inside directory d of the tree
Children(tree, d) ==
    {e \in tree : Len(e.path) = Len(d) + 1 /\ SubSeq(e.path, 1, Len(d)) = d}

FileName(p) == p[Len(p)]

----------------------------------------------------------------------------
(* The tag-file codec *)

\* the inner loop of read_tags: every piece of the line's remainder, with
\* its whitespace removed, is pushed
LineTags(line) ==
    IF line # <<>> /\ Len(line) >= 5 /\ SubSeq(line, 1, 5) = TagsPrefix
    THEN LET toks == GetLines(SubSeq(line, 6, Len(line)), ",")
         IN [i \in 1..Len(toks) |-> StripSpace(toks[i])]
    ELSE <<>>

\* what read_tags makes of the text of a .meta file
TextTags(text) ==
    LET lines == GetLines(text, "\n")
    IN Flatten([i \in 1..Len(lines) |-> LineTags(lines[i])])

\* read_tags(template_path) on the tree of the template
read_tags(tree) ==
    IF IsFileAt(tree, MetaPath) THEN TextTags(DataAt(tree, MetaPath)) ELSE <<>>

\* the text write_tags puts in .meta
TagsText(tags) ==
    IF tags # <<>> THEN TagsPrefix \o JoinTags(tags) \o <<"\n">> ELSE <<>>

\* write_tags with the file of line 105 opened to append
write_tags_append(tree, tags) ==
    PutFile(tree, MetaPath,
            (IF IsFileAt(tree, MetaPath) THEN DataAt(tree, MetaPath) ELSE <<>>)
            \o TagsText(tags))

\* write_tags(template_path, tags) on the tree of the template
write_tags(tree, tags) == PutFile(tree, MetaPath, TagsText(tags))

\* parse_tags(tags_arg)
parse_tags(arg) ==
    LET toks == GetLines(arg, ",")
        stripped == [i \in 1..Len(toks) |-> StripSpace(toks[i])]
    IN SelectSeq(stripped, LAMBDA t : t # <<>>)

----------------------------------------------------------------------------
(* The operations of the store.  Each takes the filesystem f and gives     *)
(* [fs, msg, listing, rc]: the filesystem it leaves, what it printed and   *)
(* the exit status main returns after it (134 when it is terminated).      *)

MsgSaved == "Template saved successfully!"
MsgNameTaken == "Template with that name already exists!"
MsgNoStore == "No templates found in"
MsgNoTemplate == "Template does not exist."
MsgFolderExists == "Folder already exists with the name"
MsgCreated == "Template created successfully!"
MsgAvailable == "Available templates in"
MsgNotDeleted == "Template doesn't exist!"
MsgDeleted == "Template deleted successfully!"
MsgTagsAdded == "Tags added successfully."
MsgTagsRemoved == "Tags removed successfully."
MsgTerminate == "terminate called after throwing filesystem_error"

Returned(f, m) == [fs |-> f, msg |-> m, listing |-> {}, rc |-> 0]

Terminated(f) == [fs |-> f, msg |-> MsgTerminate, listing |-> {}, rc |-> 134]

\* the empty template name: TEMPLATE_DIR / "" names the store directory
StoreSelf == ""

\* fs::exists(TEMPLATE_DIR / name)
Exists(f, name) == f.storeDir /\ f.store[name].kind # "none"

\* fs::exists(p) && fs::is_directory(p) for p = TEMPLATE_DIR / name
IsTemplate(f, name) == f.storeDir /\ f.store[name].kind = "dir"

\* copy_template without line 133's test: .meta is copied like any file
RECURSIVE copy_template_all(_, _)
copy_template_all(src, d) ==
    (IF d = <<>> THEN {} ELSE {DirEntry(d)})
    \cup UNION {
        IF e.kind = "dir" THEN copy_template_all(src, e.path)
        ELSE {FileEntry(e.path, e.data)}
        : e \in Children(src, d)}

\* copy_template with line 133's test made only at the root of the template
RECURSIVE copy_template_root(_, _)
copy_template_root(src, d) ==
    (IF d = <<>> THEN {} ELSE {DirEntry(d)})
    \cup UNION {
        IF e.kind = "dir" THEN copy_template_root(src, e.path)
        ELSE IF d = <<>> /\ FileName(e.path) = MetaName THEN {}
        ELSE {FileEntry(e.path, e.data)}
        : e \in Children(src, d)}

\* copy_template(src, dst) below directory d of the template: the entries
\* it creates under the destination
RECURSIVE copy_template(_, _)
copy_template(src, d) ==
    (IF d = <<>> THEN {} ELSE {DirEntry(d)})
    \cup UNION {
        IF e.kind = "dir" THEN copy_template(src, e.path)
        ELSE IF FileName(e.path) = MetaName THEN {}
        ELSE {FileEntry(e.path, e.data)}
        : e \in Children(src, d)}

\* what save_template copies from a source directory: fs::copy of the
\* directory structure, then copy_file of every regular file
CopyTree(tree) ==
    {DirEntry(e.path) : e \in {x \in tree : x.kind = "dir"}}
    \cup {FileEntry(e.path, e.data) : e \in {x \in tree : x.kind = "file"}}

\* save_template without the test of lines 150-153
save_template_overwrite(f, t_name, src_dir, tags) ==
    LET src == f.cwd[src_dir]
        made(tree) == [f EXCEPT !.storeDir = TRUE, !.store[t_name] = DirPlace(tree)]
    IN IF src.kind # "dir" THEN Terminated(made({}))
       ELSE Returned(made(IF tags # <<>> THEN write_tags(CopyTree(src.tree), tags)
                          ELSE CopyTree(src.tree)),
                     MsgSaved)

\* save_template without the write_tags of lines 169-171: the .meta of the
\* source stays as it was copied
save_template_untagged(f, t_name, src_dir, tags) ==
    IF Exists(f, t_name) THEN Returned(f, MsgNameTaken)
    ELSE LET src == f.cwd[src_dir]
             made(tree) == [f EXCEPT !.storeDir = TRUE,
                                     !.store[t_name] = DirPlace(tree)]
         IN IF src.kind # "dir" THEN Terminated(made({}))
            ELSE Returned(made(CopyTree(src.tree)), MsgSaved)

\* save_template(t_name, src_dir, tags)
save_template(f, t_name, src_dir, tags) ==
    IF Exists(f, t_name) THEN Returned(f, MsgNameTaken)
    ELSE LET src == f.cwd[src_dir]
             made(tree) == [f EXCEPT !.storeDir = TRUE,
                                     !.store[t_name] = DirPlace(tree)]
         IN IF src.kind # "dir"
            \* create_directories succeeded, then fs::copy (no source) or
            \* recursive_directory_iterator (a file) throws
            THEN Terminated(made({}))
            ELSE Returned(made(IF tags # <<>>
                               THEN write_tags(CopyTree(src.tree), tags)
                               ELSE CopyTree(src.tree)),
                          MsgSaved)

\* make_project without the test of lines 194-197: it copies into a
\* destination that exists
make_project_clobber(f, t_name, dest) ==
    IF ~f.storeDir THEN Returned(f, MsgNoStore)
    ELSE IF ~Exists(f, t_name) THEN Returned(f, MsgNoTemplate)
    ELSE IF f.store[t_name].kind # "dir"
         THEN Terminated([f EXCEPT !.cwd[dest] = DirPlace(f.cwd[dest].tree)])
         ELSE Returned([f EXCEPT !.cwd[dest] =
                            DirPlace(f.cwd[dest].tree
                                     \cup copy_template(f.store[t_name].tree, <<>>))],
                       MsgCreated)

\* make_project(t_name, dest)
make_project(f, t_name, dest) ==
    IF ~f.storeDir THEN Returned(f, MsgNoStore)
    ELSE IF ~Exists(f, t_name) THEN Returned(f, MsgNoTemplate)
    ELSE IF f.cwd[dest].kind # "none" THEN Returned(f, MsgFolderExists)
    ELSE IF f.store[t_name].kind # "dir"
         \* create_directories(dst) succeeded, then directory_iterator throws
         THEN Terminated([f EXCEPT !.cwd[dest] = DirPlace({})])
         ELSE Returned([f EXCEPT !.cwd[dest] =
                            DirPlace(copy_template(f.store[t_name].tree, <<>>))],
                       MsgCreated)

\* the loop of lines 229-234 requiring every filter tag, not any
ShowTemplateAll(tags, filter_tags) ==
    \A i \in 1..Len(filter_tags) : \E j \in 1..Len(tags) : tags[j] = filter_tags[i]

\* the loop of list_templates over filter_tags: std::find over tags
ShowTemplate(tags, filter_tags) ==
    filter_tags = <<>>
    \/ \E i \in 1..Len(filter_tags) : \E j \in 1..Len(tags) : tags[j] = filter_tags[i]

\* list_templates(filter_tags); the lines follow the directory iterator's
\* order, which is unspecified: they are kept as a set
list_templates(f, filter_tags) ==
    IF ~f.storeDir \/ \A n \in Names : f.store[n].kind = "none"
    THEN Returned(f, MsgNoStore)
    ELSE [fs |-> f, msg |-> MsgAvailable, rc |-> 0,
          listing |-> {[name |-> n, tags |-> read_tags(f.store[n].tree)] :
                        n \in {m \in Names :
                                 /\ f.store[m].kind = "dir"
                                 /\ ShowTemplate(read_tags(f.store[m].tree),
                                                 filter_tags)}}]

\* delete_template(template_n).  TEMPLATE_DIR / "" is the store itself:
\* with the empty name the tests of line 259 pass when the store exists and
\* remove_all takes the store and all it holds
delete_template(f, template_n) ==
    IF template_n = StoreSelf
    THEN IF ~f.storeDir THEN Returned(f, MsgNotDeleted)
         ELSE Returned([f EXCEPT !.storeDir = FALSE,
                                 !.store = [m \in Names |-> NoPlace]],
                       MsgDeleted)
    ELSE IF ~IsTemplate(f, template_n) THEN Returned(f, MsgNotDeleted)
    ELSE Returned([f EXCEPT !.store[template_n] = NoPlace], MsgDeleted)

\* the loop of add_tags_to_template: push_back each tag std::find misses
RECURSIVE AddEach(_, _)
AddEach(existing, tags) ==
    IF tags = <<>> THEN existing
    ELSE AddEach(IF tags[1] \in Range(existing) THEN existing
                 ELSE Append(existing, tags[1]),
                 Tail(tags))

\* the loop of remove_tags_from_template: erase(remove(.., tag)) per tag
RECURSIVE RemoveEach(_, _)
RemoveEach(existing, tags) ==
    IF tags = <<>> THEN existing
    ELSE RemoveEach(SelectSeq(existing, LAMBDA t : t # tags[1]), Tail(tags))

\* add_tags_to_template(t_name, tags)
add_tags_to_template(f, t_name, tags) ==
    IF ~IsTemplate(f, t_name) THEN Returned(f, MsgNoTemplate)
    ELSE LET tree == f.store[t_name].tree
         IN Returned([f EXCEPT !.store[t_name] =
                          DirPlace(write_tags(tree, AddEach(read_tags(tree), tags)))],
                     MsgTagsAdded)

\* remove_tags_from_template(t_name, tags)
remove_tags_from_template(f, t_name, tags) ==
    IF ~IsTemplate(f, t_name) THEN Returned(f, MsgNoTemplate)
    ELSE LET tree == f.store[t_name].tree
         IN Returned([f EXCEPT !.store[t_name] =
                          DirPlace(write_tags(tree, RemoveEach(read_tags(tree), tags)))],
                     MsgTagsRemoved)

----------------------------------------------------------------------------
(* The working directory the program is run in *)

\* a project: a file, and a subdirectory holding a file and a .meta of its own
ProjTree ==
    {FileEntry(<<"f.txt">>, <<"h", "i">>),
     DirEntry(<<"sub">>),
     FileEntry(<<"sub", "g.txt">>, <<"g">>),
     FileEntry(<<"sub", MetaName>>, <<"n">>)}

\* a directory that has a .meta at its root: the lines "#" and "Tags: a,,,"
TaggedTree ==
    {FileEntry(<<"main.c">>, <<"m">>),
     FileEntry(MetaPath,
               <<"#", "\n">> \o TagsPrefix \o <<" ", Alphabet[1], ",", ",", ",", "\n">>)}

InitCwd ==
    [p \in Paths |->
        CASE p = "proj" -> DirPlace(ProjTree)
          [] p = "tagged" -> DirPlace(TaggedTree)
          [] OTHER -> NoPlace]

----------------------------------------------------------------------------
(* The invocations: main's branches *)

Call(cmd, name, dir, tags) == [cmd |-> cmd, name |-> name, dir |-> dir, tags |-> tags]

Do(r, c) ==
    /\ fs' = r.fs
    /\ msg' = r.msg
    /\ listing' = r.listing
    /\ rc' = r.rc
    /\ call' = c

\* tmpl save <template_name> <directory_to_save>
Save(names, dirs) ==
    \E n \in names, d \in dirs :
        LET r == save_template(fs, n, d, <<>>)
        IN /\ Do(r, Call("save", n, d, <<>>))
           /\ deleted' = IF r.msg = MsgSaved THEN deleted \ {n} ELSE deleted

\* tmpl save <template_name> <directory_to_save> --tags <csv>
SaveTags(names, dirs, args) ==
    \E n \in names, d \in dirs, a \in args :
        LET tags == parse_tags(a)
            r == save_template(fs, n, d, tags)
        IN /\ Do(r, Call("save", n, d, tags))
           /\ deleted' = IF r.msg = MsgSaved THEN deleted \ {n} ELSE deleted

\* tmpl make <template_name> <destination>
Make(names, dirs) ==
    \E n \in names, d \in dirs :
        /\ Do(make_project(fs, n, d), Call("make", n, d, <<>>))
        /\ UNCHANGED deleted

\* tmpl list
List ==
    /\ Do(list_templates(fs, <<>>), Call("list", "", "", <<>>))
    /\ UNCHANGED deleted

\* tmpl list --tags <csv>
ListTags(args) ==
    \E a \in args :
        LET tags == parse_tags(a)
        IN /\ Do(list_templates(fs, tags), Call("list", "", "", tags))
           /\ UNCHANGED deleted

\* tmpl delete <template_name>
Delete(names) ==
    \E n \in names :
        LET r == delete_template(fs, n)
        IN /\ Do(r, Call("delete", n, "", <<>>))
           /\ deleted' = IF r.msg # MsgDeleted THEN deleted
                         ELSE IF n = StoreSelf
                              THEN deleted \cup {m \in Names : Exists(fs, m)}
                              ELSE deleted \cup {n}

\* tmpl tag add <template_name> <csv>
TagAdd(names, args) ==
    \E n \in names, a \in args :
        LET tags == parse_tags(a)
        IN /\ Do(add_tags_to_template(fs, n, tags), Call("tag add", n, "", tags))
           /\ UNCHANGED deleted

\* tmpl tag remove <template_name> <csv>
TagRemove(names, args) ==
    \E n \in names, a \in args :
        LET tags == parse_tags(a)
        IN /\ Do(remove_tags_from_template(fs, n, tags),
                 Call("tag remove", n, "", tags))
           /\ UNCHANGED deleted

\* before the first invocation: no store yet, or a store that holds only a
\* stray file
Init ==
    /\ \E stray \in BOOLEAN :
        fs = [storeDir |-> stray,
              store |-> [n \in Names |->
                            IF stray /\ n = StrayName THEN FilePlace ELSE NoPlace],
              cwd |-> InitCwd]
    /\ call = Call("", "", "", <<>>)
    /\ msg = ""
    /\ listing = {}
    /\ rc = 0
    /\ deleted = {}

\* two templates, saved from the project directory, with few tag arguments
\* (a save of a directory that does not exist is in NextTags)
Next ==
    \/ Save(TemplateNames, {"proj"})
    \/ SaveTags(TemplateNames, {"proj"}, FewArgs)
    \/ Make(Names, {"out", "proj"})
    \/ List
    \/ ListTags(FewArgs)
    \/ Delete(Names \cup {StoreSelf})
    \/ TagAdd(Names, FewArgs)
    \/ TagRemove(Names, FewArgs)

Spec == Init /\ [][Next]_vars

\* one template, saved from the directory that has a .meta of its own, with
\* every tag argument
NextTags ==
    \/ Save({"alpha"}, {"tagged", "gone"})
    \/ SaveTags({"alpha"}, {"tagged", "gone"}, CsvArgs)
    \/ Make({"alpha", StrayName}, {"out"})
    \/ List
    \/ ListTags(CsvArgs)
    \/ Delete({"alpha", StrayName})
    \/ TagAdd({"alpha", StrayName}, CsvArgs)
    \/ TagRemove({"alpha", StrayName}, CsvArgs)

SpecTags == Init /\ [][NextTags]_vars

----------------------------------------------------------------------------
(* The program from its command line.  An argument is a sequence of pieces:
   a word (a command, a name, an option) is one piece, a tags argument is
   its characters, the pieces parse_tags reads *)

Word(w) == <<w>>

\* std::string(argv[i]) of an argument that is a word
Str(arg) == arg[1]

\* C's argv[i]: argv[0] is the first of the sequence
Argv(argv, i) == argv[i + 1]

MsgNoHome == "Unable to determine home directory."
MsgInvalidUsage == "Invalid usage. For help, run:"
MsgUnknownCommand == "Unknown command. For help, run:"
MsgUnknownAction == "Unknown action for 'tag' command. Use 'add' or 'remove'."
MsgHelp == "Usage:"
MsgVersion == "Version: 1.0.3"

MsgArity(cmd) ==
    CASE cmd = "save" -> "Invalid number of arguments for 'save'."
      [] cmd = "make" -> "Invalid number of arguments for 'make'."
      [] cmd = "delete" -> "Invalid number of arguments for 'delete'."
      [] cmd = "tag" -> "Invalid number of arguments for 'tag'."

\* return -1 from main
Rejected(f, m) == [fs |-> f, msg |-> m, listing |-> {}, rc |-> 255]

\* main(argc, argv)
main(f, argv) ==
    LET argc == Len(argv)
        is(i, w) == Argv(argv, i) = Word(w)
    IN IF argc <= 1 THEN Rejected(f, MsgInvalidUsage)
       ELSE IF is(1, "save")
       THEN IF argc >= 4
            THEN save_template(f, Str(Argv(argv, 2)), Str(Argv(argv, 3)),
                               IF argc >= 6 /\ is(4, "--tags")
                               THEN parse_tags(Argv(argv, 5)) ELSE <<>>)
            ELSE Rejected(f, MsgArity("save"))
       ELSE IF is(1, "list")
       THEN list_templates(f, IF argc >= 4 /\ is(2, "--tags")
                              THEN parse_tags(Argv(argv, 3)) ELSE <<>>)
       ELSE IF is(1, "help") THEN Returned(f, MsgHelp)
       ELSE IF is(1, "version") THEN Returned(f, MsgVersion)
       ELSE IF is(1, "make")
       THEN IF argc = 4
            THEN make_project(f, Str(Argv(argv, 2)), Str(Argv(argv, 3)))
            ELSE Rejected(f, MsgArity("make"))
       ELSE IF is(1, "delete")
       THEN IF argc = 3
            THEN delete_template(f, Str(Argv(argv, 2)))
            ELSE Rejected(f, MsgArity("delete"))
       ELSE IF is(1, "tag")
       THEN IF argc = 5
            THEN LET tags == parse_tags(Argv(argv, 4))
                 IN IF is(2, "add")
                    THEN add_tags_to_template(f, Str(Argv(argv, 3)), tags)
                    ELSE IF is(2, "remove")
                    THEN remove_tags_from_template(f, Str(Argv(argv, 3)), tags)
                    ELSE Rejected(f, MsgUnknownAction)
            ELSE Rejected(f, MsgArity("tag"))
       ELSE Rejected(f, MsgUnknownCommand)

\* the process: TEMPLATE_DIR is initialised before main is entered, and
\* get_home_directory exits when HOME is not set
program(home, f, argv) ==
    IF ~home THEN [fs |-> f, msg |-> MsgNoHome, listing |-> {}, rc |-> 1]
    ELSE main(f, argv)

\* the command lines: every subcommand with the arguments its usage line
\* gives, with fewer and with more
Argvs ==
    LET cmd(words) == <<Word("tmpl")>> \o [i \in 1..Len(words) |-> Word(words[i])]
        csv(words, arg) == Append(cmd(words), arg)
        tagsBA == <<"b", ",", "a">>
        tagsA == <<"a">>
    IN {cmd(<<>>),
        cmd(<<"save">>), cmd(<<"save", "alpha">>), cmd(<<"save", "alpha", "proj">>),
        cmd(<<"save", "alpha", "proj", "extra">>),
        cmd(<<"save", "alpha", "proj", "--tags">>),
        csv(<<"save", "alpha", "proj", "--tags">>, tagsBA),
        cmd(<<"make">>), cmd(<<"make", "alpha">>), cmd(<<"make", "alpha", "out">>),
        cmd(<<"make", "alpha", "out", "extra">>),
        cmd(<<"list">>), cmd(<<"list", "extra">>), cmd(<<"list", "--tags">>),
        csv(<<"list", "--tags">>, tagsA),
        Append(csv(<<"list", "--tags">>, tagsA), Word("extra")),
        cmd(<<"delete">>), cmd(<<"delete", "alpha">>),
        cmd(<<"delete", "alpha", "extra">>),
        cmd(<<"tag">>), cmd(<<"tag", "add", "alpha">>),
        csv(<<"tag", "add", "alpha">>, tagsBA),
        csv(<<"tag", "remove", "alpha">>, tagsA),
        csv(<<"tag", "frob", "alpha">>, tagsA),
        Append(csv(<<"tag", "add", "alpha">>, tagsA), Word("extra")),
        cmd(<<"help">>), cmd(<<"help", "extra">>),
        cmd(<<"version">>), cmd(<<"version", "extra">>),
        cmd(<<"frob">>)}

MainCall(home, argv) ==
    [cmd |-> "tmpl", name |-> "", dir |-> "", tags |-> <<>>,
     home |-> home, argv |-> argv]

\* one run of the program, with HOME set or not
Run(argvs) ==
    \E home \in BOOLEAN, argv \in argvs :
        LET r == program(home, fs, argv)
        IN /\ Do(r, MainCall(home, argv))
           /\ deleted' = IF r.msg = MsgDeleted THEN deleted \cup {Str(Argv(argv, 2))}
                         ELSE IF r.msg = MsgSaved THEN deleted \ {Str(Argv(argv, 2))}
                         ELSE deleted

NextMain == Run(Argvs)

SpecMain == Init /\ [][NextMain]_vars

----------------------------------------------------------------------------
(* The codec alone: write_tags and read_tags on one template *)

\* write_tags(<store>/alpha, tags)
WriteTags(lists) ==
    \E tags \in lists :
        /\ fs' = [fs EXCEPT !.store["alpha"] =
                      DirPlace(write_tags(fs.store["alpha"].tree, tags))]
        /\ call' = Call("write_tags", "alpha", "", tags)
        /\ msg' = ""
        /\ listing' = {}
        /\ UNCHANGED <<rc, deleted>>

\* read_tags(<store>/alpha): what it returns is kept in listing
ReadTags ==
    /\ call' = Call("read_tags", "alpha", "", <<>>)
    /\ listing' = {[name |-> "alpha", tags |-> read_tags(fs.store["alpha"].tree)]}
    /\ msg' = ""
    /\ UNCHANGED <<fs, rc, deleted>>

\* the store after `tmpl save alpha tagged`
InitCodec ==
    /\ fs = [storeDir |-> TRUE,
             store |-> [n \in Names |->
                           IF n = "alpha" THEN DirPlace(CopyTree(TaggedTree))
                           ELSE NoPlace],
             cwd |-> InitCwd]
    /\ call = Call("save", "alpha", "tagged", <<>>)
    /\ msg = MsgSaved
    /\ listing = {}
    /\ rc = 0
    /\ deleted = {}

NextCodec ==
    \/ WriteTags(CodecLists)
    \/ ReadTags

SpecCodec == InitCodec /\ [][NextCodec]_vars

----------------------------------------------------------------------------
(* What the claims speak of *)

\* the tag list of template n, as the program reads it
TagsOf(f, n) == read_tags(f.store[n].tree)

\* the regular files of a tree
Files(tree) == {e \in tree : e.kind = "file"}

\* file e of one tree is at the same path of another, with the same content
CopiedTo(e, tree) == IsFileAt(tree, e.path) /\ DataAt(tree, e.path) = e.data

\* the names `list` printed
Listed == {l.name : l \in listing}

\* the template and the destination of the `make` just run
MadeFrom == fs.store[call.name].tree

MadeAt == fs.cwd[call.dir].tree

MakeDone == call.cmd = "make" /\ msg = MsgCreated

----------------------------------------------------------------------------
(* C1 - C6 *)

\* C1: Save uniqueness.  A save whose name is already in the store reports
\* the name collision and leaves the filesystem, so <store>/N with its
\* payload and sidecar, as it was; whatever the source and the tags.
C1_SaveUniqueness ==
    [][(call'.cmd = "save" /\ Exists(fs, call'.name))
       => (msg' = MsgNameTaken /\ fs' = fs)]_vars

\* a second save, with tags, of a name whose template holds files
C1_Witness ==
    /\ call.cmd = "save"
    /\ msg = MsgNameTaken
    /\ call.tags # <<>>
    /\ fs.store[call.name].kind = "dir"
    /\ Files(fs.store[call.name].tree) # {}

\* C2, as claimed: a make whose destination exists reports the folder-exists
\* diagnostic and leaves the filesystem as it was.
C2_MakeNonClobber_Claimed ==
    [][(call'.cmd = "make" /\ fs.cwd[call'.dir].kind # "none")
       => (msg' = MsgFolderExists /\ fs' = fs)]_vars

\* C2, amended: a make whose destination exists leaves the filesystem as it
\* was and fails: with the folder-exists diagnostic when the template is in
\* the store, and with the no-store or no-template diagnostic, which
\* make_project tests first, when it is not.
C2_MakeNonClobber ==
    [][(call'.cmd = "make" /\ fs.cwd[call'.dir].kind # "none")
       => /\ fs' = fs
          /\ msg' \in {MsgFolderExists, MsgNoStore, MsgNoTemplate}
          /\ msg' = MsgFolderExists <=> Exists(fs, call'.name)
          /\ msg' = MsgNoStore <=> ~fs.storeDir]_vars

\* a make of a stored template refused because its destination, a directory
\* with files, exists
C2_Witness ==
    /\ call.cmd = "make"
    /\ msg = MsgFolderExists
    /\ fs.store[call.name].kind = "dir"
    /\ Files(fs.cwd[call.dir].tree) # {}

\* C3, as claimed: after a successful make of a template whose root has
\* .meta, the destination has no .meta at its root and every other file of
\* the template is at the same path of the destination with the same content.
C3_SidecarExclusion_Claimed ==
    (MakeDone /\ IsFileAt(MadeFrom, MetaPath))
    => /\ \A e \in MadeAt : e.path # MetaPath
       /\ \A e \in Files(MadeFrom) : e.path # MetaPath => CopiedTo(e, MadeAt)

\* C3, amended: after a successful make of a template whose root has .meta,
\* the destination has no .meta at its root, and every file of the template
\* that is not named .meta, at any depth, is at the same path of the
\* destination with the same content.
C3_SidecarExclusion ==
    (MakeDone /\ IsFileAt(MadeFrom, MetaPath))
    => /\ \A e \in MadeAt : e.path # MetaPath
       /\ \A e \in Files(MadeFrom) :
            FileName(e.path) # MetaName => CopiedTo(e, MadeAt)

\* a make of a template that has .meta at its root, files beside it and
\* files below it
C3_Witness ==
    /\ MakeDone
    /\ IsFileAt(MadeFrom, MetaPath)
    /\ \E e \in Files(MadeFrom) : Len(e.path) = 1 /\ e.path # MetaPath
    /\ \E e \in Files(MadeFrom) : Len(e.path) > 1 /\ FileName(e.path) # MetaName

\* the files named .meta below the root of a tree
NestedMeta(tree) ==
    {e \in Files(tree) : Len(e.path) > 1 /\ FileName(e.path) = MetaName}

\* C4, as claimed: after a successful make, every .meta below the root of
\* the template is at the same path of the destination with the same content.
C4_NestedMeta_Claimed ==
    MakeDone => \A e \in NestedMeta(MadeFrom) : CopiedTo(e, MadeAt)

\* C4, amended: after a successful make, no file named .meta is anywhere in
\* the destination: copy_template skips .meta in every directory it copies,
\* not only at the root; the directory of a nested .meta and the other files
\* in it are copied.
C4_NestedMeta ==
    MakeDone
    => /\ \A e \in Files(MadeAt) : FileName(e.path) # MetaName
       /\ \A e \in NestedMeta(MadeFrom) :
            /\ DirEntry(SubSeq(e.path, 1, Len(e.path) - 1)) \in MadeAt
            /\ \A x \in Children(MadeFrom, SubSeq(e.path, 1, Len(e.path) - 1)) :
                 (x.kind = "file" /\ FileName(x.path) # MetaName)
                 => CopiedTo(x, MadeAt)

\* a make of a template that has a .meta below its root
C4_Witness == MakeDone /\ NestedMeta(MadeFrom) # {}

\* C5: Delete finality.  While a name is deleted and not saved again with
\* success, list does not print it and a make of it reports that the
\* template does not exist and leaves the working directory as it was.
C5_DeleteFinality ==
    [][\A n \in deleted' :
          /\ call'.cmd = "list" => n \notin Listed'
          /\ (call'.cmd = "make" /\ call'.name = n)
             => (msg' = MsgNoTemplate /\ fs'.cwd = fs.cwd)]_vars

\* C6: List filter disjunction.  list prints exactly the directories of the
\* store whose tags meet the filter, all of them when the filter is empty,
\* each with the tags read from it, and never a file of the store.
C6_ListFilter ==
    call.cmd = "list"
    => /\ Listed = {n \in Names :
                      /\ fs.storeDir
                      /\ fs.store[n].kind = "dir"
                      /\ (call.tags = <<>>
                          \/ Range(TagsOf(fs, n)) \cap Range(call.tags) # {})}
       /\ \A l \in listing : l.tags = TagsOf(fs, l.name)

\* a list with a filter of two tags that prints a template having only one
\* of them and omits another template, beside a stray file in the store
C6_Witness ==
    /\ call.cmd = "list"
    /\ Len(call.tags) = 2
    /\ \E l \in listing : ~(Range(call.tags) \subseteq Range(l.tags))
    /\ \E n \in Names : fs.store[n].kind = "dir" /\ n \notin Listed
    /\ fs.store[StrayName].kind = "file"

----------------------------------------------------------------------------
(* C7 - C10 *)

NoDuplicates(tags) ==
    \A i, j \in 1..Len(tags) : tags[i] = tags[j] => i = j

\* C7: No duplicate tags.  In every reachable state the tag list of every
\* template of the store has no tag more than once.
C7_NoDuplicateTags ==
    \A n \in Names : fs.store[n].kind = "dir" => NoDuplicates(TagsOf(fs, n))

\* the invocation just run is a tag add / a tag remove that was carried out
TagAdded == call.cmd = "tag add" /\ msg = MsgTagsAdded

TagRemoved == call.cmd = "tag remove" /\ msg = MsgTagsRemoved

\* C8: Tag add idempotence.  A tag add of template N that follows a tag add
\* of N with the same tags leaves the tag list of N as the first left it.
C8_TagAddIdempotent ==
    [][(TagAdded /\ TagAdded' /\ call'.name = call.name /\ call'.tags = call.tags)
       => TagsOf(fs', call.name) = TagsOf(fs, call.name)]_vars

\* C9: Tag remove of an absent tag.  A tag remove of template N whose tags
\* are none of them in the tag list of N leaves the tag list as it was, the
\* same tags in the same order.
C9_TagRemoveAbsent ==
    [][(TagRemoved' /\ call'.tags # <<>>
        /\ Range(call'.tags) \cap Range(TagsOf(fs, call'.name)) = {})
       => TagsOf(fs', call'.name) = TagsOf(fs, call'.name)]_vars

\* the tags of ts that are not in old, each once, in the order of ts
NewTags(old, ts) ==
    LET keep == {i \in 1..Len(ts) :
                    /\ ts[i] \notin Range(old)
                    /\ \A j \in 1..(i - 1) : ts[j] # ts[i]}
        Sorted(n) ==
            CHOOSE i \in keep : Cardinality({j \in keep : j < i}) = n - 1
    IN [n \in 1..Cardinality(keep) |-> ts[Sorted(n)]]

\* C10: Tag order.  After a tag add the tag list is the old list followed by
\* the new tags of the argument in argument order; after a tag remove it is
\* the old list without the tags of the argument, the others in their order.
C10_TagOrder ==
    [][/\ TagAdded'
          => TagsOf(fs', call'.name)
               = TagsOf(fs, call'.name) \o NewTags(TagsOf(fs, call'.name), call'.tags)
       /\ TagRemoved'
          => TagsOf(fs', call'.name)
               = SelectSeq(TagsOf(fs, call'.name),
                           LAMBDA t : t \notin Range(call'.tags))]_vars

----------------------------------------------------------------------------
(* Two processes that run `tmpl save alpha <dir> [--tags <csv>]` at once.
   Each filesystem call of save_template is one step.  call, msg and rc hold
   one value per process; call[p] also holds where process p is in
   save_template (pc) and the files its loop has still to copy (todo) *)

Procs == {1, 2}

Other(p) == 3 - p

\* fs::create_directories with an existing directory kept as it is
create_directories_fresh(place) == DirPlace({})

\* fs::create_directories(template_path): no error when it is there already
create_directories(place) == IF place.kind = "dir" THEN place ELSE DirPlace({})

\* fs::copy_file(path, dest_path, overwrite_existing), taken as one step
copy_file(tree, e) == PutFile(tree, e.path, e.data)

At(p, pc) == call[p].pc = pc

Goto(p, pc, todo) == call' = [call EXCEPT ![p].pc = pc, ![p].todo = todo]

\* lines 150-153: the test, and the return when the name is taken
TestExists(p) ==
    /\ At(p, "test")
    /\ IF Exists(fs, call[p].name)
       THEN /\ msg' = [msg EXCEPT ![p] = MsgNameTaken]
            /\ Goto(p, "done", {})
       ELSE /\ Goto(p, "mkdir", {})
            /\ UNCHANGED msg
    /\ UNCHANGED <<fs, listing, rc, deleted>>

\* line 155
CreateDirectories(p) ==
    /\ At(p, "mkdir")
    /\ fs' = [fs EXCEPT !.storeDir = TRUE,
                        !.store[call[p].name] = create_directories(@)]
    /\ Goto(p, "copy", {})
    /\ UNCHANGED <<msg, listing, rc, deleted>>

\* line 156: the directories of the source
CopyDirectories(p) ==
    /\ At(p, "copy")
    /\ LET src == fs.cwd[call[p].dir].tree
           dirs == {DirEntry(e.path) : e \in {x \in src : x.kind = "dir"}}
       IN /\ fs' = [fs EXCEPT !.store[call[p].name] = DirPlace(@.tree \cup dirs)]
          /\ Goto(p, IF Files(src) = {} THEN "tags" ELSE "files", Files(src))
    /\ UNCHANGED <<msg, listing, rc, deleted>>

\* lines 159-167: one turn of the loop; the iterator's order is unspecified
CopyFile(p) ==
    /\ At(p, "files")
    /\ \E e \in call[p].todo :
        /\ fs' = [fs EXCEPT !.store[call[p].name] = DirPlace(copy_file(@.tree, e))]
        /\ Goto(p, IF call[p].todo = {e} THEN "tags" ELSE "files", call[p].todo \ {e})
    /\ UNCHANGED <<msg, listing, rc, deleted>>

\* lines 169-173: write_tags when there are tags, and the message
WriteAndReport(p) ==
    /\ At(p, "tags")
    /\ fs' = IF call[p].tags = <<>> THEN fs
             ELSE [fs EXCEPT !.store[call[p].name] =
                       DirPlace(write_tags(@.tree, call[p].tags))]
    /\ msg' = [msg EXCEPT ![p] = MsgSaved]
    /\ Goto(p, "done", {})
    /\ UNCHANGED <<listing, rc, deleted>>

\* both processes started on a store that has no alpha
InitConc ==
    /\ \E stray \in BOOLEAN :
        fs = [storeDir |-> stray,
              store |-> [n \in Names |->
                            IF stray /\ n = StrayName THEN FilePlace ELSE NoPlace],
              cwd |-> InitCwd]
    /\ \E dirs \in [Procs -> {"proj", "tagged"}],
          tags \in [Procs -> {<<>>, <<<<"a">>>>}] :
        call = [p \in Procs |->
                   [cmd |-> "save", name |-> "alpha", dir |-> dirs[p],
                    tags |-> tags[p], pc |-> "test", todo |-> {}]]
    /\ msg = [p \in Procs |-> ""]
    /\ rc = [p \in Procs |-> 0]
    /\ listing = {}
    /\ deleted = {}

NextConc ==
    \E p \in Procs :
        \/ TestExists(p)
        \/ CreateDirectories(p)
        \/ CopyDirectories(p)
        \/ CopyFile(p)
        \/ WriteAndReport(p)

SpecConc == InitConc /\ [][NextConc]_vars

----------------------------------------------------------------------------
(* C11 - C20 *)

\* C11: Codec round trip.  read_tags right after write_tags of a list of
\* tokens that are not empty and have no whitespace and no comma, the empty
\* list too, returns that list, in the same order.
C11_CodecRoundTrip ==
    [][(call.cmd = "write_tags" /\ call'.cmd = "read_tags")
       => listing' = {[name |-> "alpha", tags |-> call.tags]}]_vars

\* a read that returned a list of MaxListLen tokens, one of two characters
C11_Witness ==
    /\ call.cmd = "read_tags"
    /\ \E l \in listing : Len(l.tags) = MaxListLen /\ <<"a", "b">> \in Range(l.tags)

\* the diagnostics of make, delete and tag when they do nothing
FailureMsgs == {MsgNoStore, MsgNoTemplate, MsgNotDeleted, MsgFolderExists}

\* C12: Missing-template preconditions cause no mutation.  make, delete,
\* tag add and tag remove given a name that is not a directory of the store
\* (absent, or a file of the store) report the failure and leave the
\* filesystem as it was: store and destination.
C12_MissingTemplateNoMutation ==
    [][(/\ call'.cmd \in {"make", "delete", "tag add", "tag remove"}
        /\ ~IsTemplate(fs, call'.name))
       => (fs' = fs /\ msg' \in FailureMsgs)]_vars

\* the payload of a template: every entry but the .meta at its root
Payload(tree) == {e \in tree : e.path # MetaPath}

\* the subcommand of a command line
Subcommand(argv) == IF Len(argv) >= 2 THEN Str(Argv(argv, 1)) ELSE ""

\* the numbers of arguments of the usage lines: argc of each subcommand
RightArity(argv) ==
    LET argc == Len(argv)
        c == Subcommand(argv)
    IN CASE c = "save" -> argc = 4 \/ (argc = 6 /\ Argv(argv, 4) = Word("--tags"))
         [] c = "make" -> argc = 4
         [] c = "list" -> argc = 2 \/ (argc = 4 /\ Argv(argv, 2) = Word("--tags"))
         [] c = "delete" -> argc = 3
         [] c = "tag" -> argc = 5
         [] OTHER -> TRUE

\* the arity-error messages the program has
ArityMsgs == {MsgArity(c) : c \in {"save", "make", "delete", "tag"}}

\* C13: Strict arity.  A run (with HOME set) of save, make, list, delete or
\* tag with a wrong number of arguments prints an arity-error message, exits
\* non-zero and leaves the store as it was.
C13_StrictArity ==
    [][(call'.home /\ ~RightArity(call'.argv))
       => (msg' \in ArityMsgs /\ rc' # 0 /\ fs' = fs)]_vars

\* C14: Lifecycle frame.  An invocation leaves every saved template N in the
\* store with the payload it had, unless it is delete N; and it leaves the
\* tag list of N as it was, unless it is tag add N or tag remove N.
C14_LifecycleFrame ==
    [][\A n \in TemplateNames :
          IsTemplate(fs, n) =>
              /\ ~(call'.cmd = "delete" /\ call'.name = n)
                 => /\ IsTemplate(fs', n)
                    /\ Payload(fs'.store[n].tree) = Payload(fs.store[n].tree)
              /\ (/\ ~(call'.cmd \in {"tag add", "tag remove"} /\ call'.name = n)
                  /\ IsTemplate(fs', n))
                 => TagsOf(fs', n) = TagsOf(fs, n)]_vars

\* C15: Save with tags overrides a source sidecar.  After a successful save
\* with tags that are not empty, the tag list of the template is the tags
\* given, whatever .meta the source has at its root.
C15_SaveTagsOverride ==
    (call.cmd = "save" /\ msg = MsgSaved /\ call.tags # <<>>)
    => TagsOf(fs, call.name) = call.tags

\* a save with two tags of the directory that has a .meta at its root
C15_Witness ==
    /\ call.cmd = "save" /\ msg = MsgSaved /\ Len(call.tags) = 2
    /\ call.dir = "tagged" /\ IsFileAt(fs.cwd["tagged"].tree, MetaPath)
    /\ IsTemplate(fs, call.name)

\* C16: help and version print their fixed text and exit with status 0, in
\* every state of the store and every environment, and leave the store alone.
C16_HelpVersion ==
    [][Subcommand(call'.argv) \in {"help", "version"}
       => /\ msg' = (IF Subcommand(call'.argv) = "help" THEN MsgHelp ELSE MsgVersion)
          /\ rc' = 0
          /\ fs' = fs]_vars

\* C17: Codec read yields only non-empty tokens.  The tag list read from the
\* sidecar of a template never holds an empty tag.
C17_NoEmptyTag ==
    \A n \in TemplateNames :
        IsTemplate(fs, n) => \A i \in 1..Len(TagsOf(fs, n)) : TagsOf(fs, n)[i] # <<>>

\* both concurrent saves have returned
AllDone == \A p \in Procs : call[p].pc = "done"

\* <store>/alpha after the concurrent saves
Saved == fs.store["alpha"].tree

\* what the save of process p leaves in <store>/alpha when it runs alone
Alone(p) ==
    save_template([fs EXCEPT !.store["alpha"] = NoPlace],
                  "alpha", call[p].dir, call[p].tags).fs.store["alpha"].tree

\* C18, as claimed: under every interleaving of two saves of a free name,
\* exactly one reports success and <store>/N is populated from its source,
\* and the other reports the name collision and writes nothing.
C18_OneWinner_Claimed ==
    AllDone => \E p \in Procs : /\ msg[p] = MsgSaved
                                /\ msg[Other(p)] = MsgNameTaken
                                /\ Saved = Alone(p)

\* C18: two concurrent saves of a free name N.  At least one reports
\* success and the other reports success or the name collision.  When one
\* reports the collision it has written nothing: <store>/N is what the
\* other's save alone leaves.  When both report success (both tested for N
\* before either created it) <store>/N holds every path of both sources.
C18_OneWinner ==
    AllDone =>
        /\ \E p \in Procs : msg[p] = MsgSaved
        /\ \A p \in Procs :
               /\ msg[p] \in {MsgSaved, MsgNameTaken}
               /\ msg[p] = MsgNameTaken => Saved = Alone(Other(p))
        /\ (\A p \in Procs : msg[p] = MsgSaved)
           => \A e \in Alone(1) \cup Alone(2) : \E d \in Saved : d.path = e.path

\* both saves reported success and <store>/alpha is what neither leaves alone
C18_Witness ==
    /\ AllDone
    /\ \A p \in Procs : msg[p] = MsgSaved
    /\ Saved # Alone(1) /\ Saved # Alone(2)

\* C19: Delete removes only the named template.  For every name that delete
\* is given, every other template of the store is still there afterwards
\* with the payload and the tags it had, and nothing outside <store>/<name>
\* is removed.
C19_DeleteOnlyNamed ==
    [][call'.cmd = "delete"
       => /\ \A m \in Names \ {call'.name} :
                 IsTemplate(fs, m) => (fs'.storeDir /\ fs'.store[m] = fs.store[m])
          /\ fs'.cwd = fs.cwd]_vars

\* C20: A save that does not succeed creates no template.  After a save of a
\* free name whose source is not a directory, <store>/<name> does not exist.
C20_FailedSaveNoTemplate ==
    (/\ call.cmd = "save"
     /\ fs.cwd[call.dir].kind # "dir"
     /\ msg # MsgNameTaken)
    => ~Exists(fs, call.name)

====
